---- MODULE Spec2Model ----
(***************************************************************************)
(* The session-backed monitoring loop of cctv_monitor/core/live.py:        *)
(* MonitorRegistry (start_if_needed, _run_and_cleanup), _monitoring_loop,  *)
(* append_log and start_ffmpeg_frame_dump, over the MonitoringSession and  *)
(* MonitoringLog tables of cctv_monitor/core/models.py.  The capture       *)
(* process (ffmpeg), the stream resolver and the inference service are     *)
(* the environment.                                                        *)
(***************************************************************************)
EXTENDS Integers, Sequences, FiniteSets, TLC

(* ------------------------------ bounds --------------------------------- *)
(* Spec: a session may be started again after its loop ended. *)
MaxThreads == 2
MaxFrames == 1
MaxThrottle == 1
(* SpecLoop: one loop run, followed frame by frame. *)
LoopFrames == 4
LoopThrottle == 2
(* SpecPair: the loops of two sessions side by side. *)
PairClock == 11
(* SpecWeb: the HTTP adapter. *)
MaxRequests == 2
MaxPreview == 1

Threads == 1..MaxThreads
Handlers == 1..MaxRequests
(* stream ids a request may name: every request registers at most one *)
StreamIds == 1..MaxRequests

(* Python's None (a null column, an absent dict key, an unset handle). *)
None == -1

(* MonitoringSession.Status *)
FRAME_TIMEOUT_SECONDS == 60

(* how long one pass of the wait can take: time.sleep(0.5) and whatever    *)
(* the scheduler adds, in whole seconds; two passes reach 60 or 61         *)
SleepSteps == {30, 31}

PENDING == "pending"
RUNNING == "running"
COMPLETED == "completed"
ERROR == "error"
Status == {PENDING, RUNNING, COMPLETED, ERROR}

(* ----------------------- reply texts and decide ------------------------ *)
UpperCase == <<"A","B","C","D","E","F","G","H","I","J","K","L","M","N","O","P","Q","R","S","T","U","V","W","X","Y","Z">>
LowerCase == <<"a","b","c","d","e","f","g","h","i","j","k","l","m","n","o","p","q","r","s","t","u","v","w","x","y","z">>

LowerChar(c) ==
    IF \E i \in 1..Len(UpperCase) : UpperCase[i] = c
    THEN LowerCase[CHOOSE i \in 1..Len(UpperCase) : UpperCase[i] = c]
    ELSE c

lower(text) == [i \in 1..Len(text) |-> LowerChar(text[i])]

strip(text) ==
    IF \A i \in 1..Len(text) : text[i] = " "
    THEN <<>>
    ELSE LET a == CHOOSE i \in 1..Len(text) :
                      text[i] # " " /\ \A j \in 1..(i - 1) : text[j] = " "
             b == CHOOSE i \in 1..Len(text) :
                      text[i] # " " /\ \A j \in (i + 1)..Len(text) : text[j] = " "
         IN  SubSeq(text, a, b)

(* Python's `needle in hay` on strings. *)
contains(needle, hay) ==
    \E i \in 0..(Len(hay) - Len(needle)) :
        \A j \in 1..Len(needle) : hay[i + j] = needle[j]

YES == <<"y","e","s">>
EVENT_DETECTED == <<"e","v","e","n","t"," ","d","e","t","e","c","t","e","d">>

decideCaseSensitive(reply_text) ==
    \/ contains(YES, reply_text)
    \/ contains(EVENT_DETECTED, reply_text)

decide(reply_text) ==
    \/ contains(YES, lower(reply_text))
    \/ contains(EVENT_DETECTED, lower(reply_text))

(* The texts the inference service may return (response.output_text). *)
ReplyText ==
    << <<"N","o"," ","c","h","a","n","g","e"," ","o","b","s","e","r","v","e","d">>,
       <<"Y","e","s",","," ","t","h","e"," ","e","v","e","n","t"," ","h","a","p","p","e","n","e","d">> >>
Replies == 1..Len(ReplyText)

(* ------------------------------- state --------------------------------- *)
VARIABLES
    session,          \* MonitoringSession rows, by primary key
    logs,             \* MonitoringLog rows in id order
    clock,            \* timezone.now(), a logical clock
    files,            \* files[s][n]: writer of frame_%04d.jpg in session_s, or None
    proc,             \* capture process started by thread t
    written,          \* number of frames the capture process of t has written
    _threads,         \* MonitorRegistry._threads
    nthreads,         \* number of Thread objects created so far
    pc,               \* position of thread t in _run_and_cleanup/_monitoring_loop
    sess,             \* session_id argument of thread t
    frame_index,      \* local frame_index of thread t
    first_frame_sent, \* local first_frame_sent of thread t
    conversation,     \* local conversation of thread t
    response,         \* local response of thread t (index into ReplyText), or None
    exc,              \* exception caught at line 271 by thread t
    elapsed,          \* time.time() - wait_start of thread t, in seconds
    requests,         \* client.responses.create calls so far, with their outcome
    budget            \* what the environment may still do: threads to launch,
                      \* streams to resolve, frames to write, throttling
                      \* signals to send, and the time up to which the run
                      \* is followed

(* views.py: the stream registry of the HTTP adapter and its threads *)
VARIABLES
    STREAMS,          \* STREAMS, by stream id (ids in order of registration)
    capture,          \* the _capture_loop thread of each stream
    req               \* the request each handler thread is working on

(* src/live.py: the standalone script *)
VARIABLES
    main              \* main(): its position and its locals frame_index,
                      \* first_frame_sent, conversation, response, and the
                      \* client.responses.create calls it has made

loopvars == <<session, logs, clock, files, proc, written, _threads, nthreads,
              pc, sess, frame_index, first_frame_sent, conversation, response, exc,
              elapsed, requests, budget>>
webvars == <<STREAMS, capture, req>>
vars == <<loopvars, webvars, main>>

(* the primary keys of the MonitoringSession rows *)
Sessions == DOMAIN session

dbvars == <<session, logs, clock>>
envvars == <<files, proc, written>>
regvars == <<_threads, nthreads>>
locvars == <<sess, frame_index, first_frame_sent, conversation, response, exc, elapsed>>

NewSession ==
    [status |-> PENDING, event_detected |-> FALSE, last_frame_number |-> 0,
     stream_url |-> "", output_folder |-> "", error_message |-> "",
     started_at |-> None, finished_at |-> None, updated_at |-> 0]

Idle == [op |-> "idle", pc |-> "idle", source_type |-> "", stream_id |-> None, status |-> None]

(* STREAMS = {} and no request in progress *)
MainIdle ==
    [pc |-> "idle", frame_index |-> 0, first_frame_sent |-> FALSE,
     conversation |-> <<>>, response |-> None, requests |-> <<>>]

InitViews ==
    /\ STREAMS = <<>>
    /\ capture = <<>>
    /\ req = [r \in Handlers |-> Idle]

InitWith(ids, b) ==
    /\ InitViews
    /\ main = MainIdle
    /\ budget = b
    /\ session = [s \in ids |-> NewSession]
    /\ logs = <<>>
    /\ clock = 0
    /\ files = [s \in Sessions |-> <<>>]
    /\ proc = [t \in Threads |-> "none"]
    /\ written = [t \in Threads |-> 0]
    /\ _threads = [s \in Sessions |-> None]
    /\ nthreads = 0
    /\ pc = [t \in Threads |-> "unborn"]
    /\ sess = [t \in Threads |-> None]
    /\ frame_index = [t \in Threads |-> 0]
    /\ first_frame_sent = [t \in Threads |-> FALSE]
    /\ conversation = [t \in Threads |-> <<>>]
    /\ response = [t \in Threads |-> None]
    /\ exc = [t \in Threads |-> ""]
    /\ elapsed = [t \in Threads |-> 0]
    /\ requests = <<>>

Init ==
    InitWith({1}, [threads |-> MaxThreads, resolves |-> MaxThreads,
                   frames |-> MaxFrames, throttles |-> MaxThrottle, until |-> None])

InitLoop ==
    InitWith({1}, [threads |-> 1, resolves |-> 1,
                   frames |-> LoopFrames, throttles |-> LoopThrottle, until |-> None])

(* two sessions, each monitored by its own loop; one stream can be         *)
(* resolved, and the two loops are followed until the clock shows          *)
(* PairClock                                                               *)
InitPair ==
    InitWith({1, 2}, [threads |-> 2, resolves |-> 1, frames |-> 1, throttles |-> 1,
                      until |-> PairClock])

(* ----------------------------- append_log ------------------------------ *)
Message(text, arg) == [text |-> text, arg |-> arg]

NewLogPerSession(t, message, frame_number, is_alert) ==
    [id |-> Len(SelectSeq(logs, LAMBDA e : e.session_id = sess[t])) + 1,
     session_id |-> sess[t], frame_number |-> frame_number,
     message |-> message, is_alert |-> is_alert, created_at |-> clock + 1, by |-> t]

(* MonitoringLog.objects.create(...): the store assigns the next id *)
NewLog(t, message, frame_number, is_alert) ==
    [id |-> Len(logs) + 1, session_id |-> sess[t], frame_number |-> frame_number,
     message |-> message, is_alert |-> is_alert, created_at |-> clock + 1, by |-> t]

BumpSessionUnguarded(row, frame_number) ==
    IF frame_number # None
    THEN [row EXCEPT !.last_frame_number = frame_number, !.updated_at = clock + 1]
    ELSE [row EXCEPT !.updated_at = clock + 1]

BumpSession(row, frame_number) ==
    IF frame_number # None
    THEN IF row.last_frame_number < frame_number
         THEN [row EXCEPT !.last_frame_number = frame_number, !.updated_at = clock + 1]
         ELSE row
    ELSE [row EXCEPT !.updated_at = clock + 1]

(* the store takes a write while the clock is below budget.until, if set *)
InTime == budget.until = None \/ clock < budget.until

append_logAllSessions(t, message, frame_number, is_alert) ==
    /\ InTime
    /\ logs' = Append(logs, NewLog(t, message, frame_number, is_alert))
    /\ session' = [s \in Sessions |-> BumpSession(session[s], frame_number)]
    /\ clock' = clock + 1

append_log(t, message, frame_number, is_alert) ==
    /\ InTime
    /\ logs' = Append(logs, NewLog(t, message, frame_number, is_alert))
    /\ session' = [session EXCEPT ![sess[t]] = BumpSession(@, frame_number)]
    /\ clock' = clock + 1

Goto(t, label) == pc' = [pc EXCEPT ![t] = label]

(* session.objects.filter(pk=...).update(...) of the fields in `fields` *)
Update(t, fields) ==
    /\ InTime
    /\ session' = [session EXCEPT ![sess[t]] =
                      [f \in DOMAIN @ |-> IF f \in DOMAIN fields THEN fields[f] ELSE @[f]]]
    /\ clock' = clock + 1

(* --------------------------- MonitorRegistry --------------------------- *)
is_alive(t) == pc[t] \notin {"unborn", "dead"}

IsActiveUnchecked(s) == FALSE

(* `session_id in self._threads and self._threads[session_id].is_alive()` *)
IsActive(s) == _threads[s] # None /\ is_alive(_threads[s])

(* start_if_needed.  Its body and the pop of _run_and_cleanup run under    *)
(* self._lock and touch nothing but the registry, so each is one action.   *)
StartIfNeeded(s) ==
    /\ budget.threads > 0 \/ IsActive(s)
    /\ IF IsActive(s)
       THEN UNCHANGED <<_threads, nthreads, pc, sess, budget>>
       ELSE LET t == nthreads + 1 IN
            /\ nthreads' = t
            /\ budget' = [budget EXCEPT !.threads = @ - 1]
            /\ _threads' = [_threads EXCEPT ![s] = t]
            /\ sess' = [sess EXCEPT ![t] = s]
            /\ pc' = [pc EXCEPT ![t] = "start"]
    /\ UNCHANGED <<dbvars, envvars, frame_index, first_frame_sent, conversation,
                   response, exc, requests>>
    /\ UNCHANGED elapsed
    /\ UNCHANGED <<webvars, main>>

RunAndCleanupNoPop(t) ==
    /\ pc[t] = "returned"
    /\ Goto(t, "dead")
    /\ UNCHANGED <<dbvars, envvars, regvars, locvars, requests, budget>>
    /\ UNCHANGED <<webvars, main>>

(* _run_and_cleanup: the finally block, after _monitoring_loop returned *)
RunAndCleanup(t) ==
    /\ pc[t] = "returned"
    /\ _threads' = [_threads EXCEPT ![sess[t]] = None]
    /\ Goto(t, "dead")
    /\ UNCHANGED <<dbvars, envvars, nthreads, locvars, requests, budget>>
    /\ UNCHANGED <<webvars, main>>

(* ------------------------- the capture process ------------------------- *)
exists(s, n) == n \in DOMAIN files[s]

(* ffmpeg writes frame_0001.jpg, frame_0002.jpg, ... into the output dir *)
FfmpegWrite(t) ==
    /\ proc[t] = "running"
    /\ budget.frames > 0
    /\ budget' = [budget EXCEPT !.frames = @ - 1]
    /\ written' = [written EXCEPT ![t] = @ + 1]
    /\ files' = [files EXCEPT ![sess[t]] = ((written[t] + 1) :> t) @@ @]
    /\ UNCHANGED <<dbvars, proc, regvars, pc, locvars, requests>>
    /\ UNCHANGED <<webvars, main>>

(* the process ends: source over, crash, or the signal sent by terminate() *)
FfmpegExit(t) ==
    /\ proc[t] \in {"running", "terminating"}
    /\ proc' = [proc EXCEPT ![t] = "exited"]
    /\ UNCHANGED <<dbvars, files, written, regvars, pc, locvars, requests, budget>>
    /\ UNCHANGED <<webvars, main>>

(* start_ffmpeg_frame_dump: unlink frame_*.jpg, then Popen *)
ClearedDir == <<>>

(* --------------------------- _monitoring_loop -------------------------- *)
SystemTurn(s) == [role |-> "system", goal |-> s]
UserTurn(first, n) ==
    [role |-> "user", prompt |-> IF first THEN "first" ELSE "next", image |-> n]

Last2(conv) == SubSeq(conv, Len(conv) - 1, Len(conv))

AppendFrameKeepOldest(conv, user_message) ==
    LET c == Append(conv, user_message) IN
    IF Len(c) > 3 THEN SubSeq(c, 1, 3) ELSE c

AppendFrameLast3(conv, user_message) ==
    LET c == Append(conv, user_message) IN
    IF Len(c) > 3 THEN SubSeq(c, Len(c) - 2, Len(c)) ELSE c

(* conversation.append(user_message); prune to system + last 2 *)
AppendFrame(conv, user_message) ==
    LET c == Append(conv, user_message) IN
    IF Len(c) > 3 THEN <<c[1]>> \o Last2(c) ELSE c

LoopStartKeepAlert(t) ==
    /\ pc[t] = "start"
    /\ Update(t, [status |-> RUNNING, started_at |-> clock + 1,
                  output_folder |-> "session_dir", error_message |-> "",
                  updated_at |-> clock + 1])
    /\ Goto(t, "log_fetching")
    /\ UNCHANGED <<logs, envvars, regvars, locvars, requests, budget>>
    /\ UNCHANGED <<webvars, main>>

LoopStartKeepError(t) ==
    /\ pc[t] = "start"
    /\ Update(t, [status |-> RUNNING, started_at |-> clock + 1,
                  output_folder |-> "session_dir", event_detected |-> FALSE,
                  updated_at |-> clock + 1])
    /\ Goto(t, "log_fetching")
    /\ UNCHANGED <<logs, envvars, regvars, locvars, requests, budget>>
    /\ UNCHANGED <<webvars, main>>

LoopStart(t) ==
    /\ pc[t] = "start"
    /\ Update(t, [status |-> RUNNING, started_at |-> clock + 1,
                  output_folder |-> "session_dir", error_message |-> "",
                  event_detected |-> FALSE, updated_at |-> clock + 1])
    /\ Goto(t, "log_fetching")
    /\ UNCHANGED <<logs, envvars, regvars, locvars, requests, budget>>
    /\ UNCHANGED <<webvars, main>>

LogFetching(t) ==
    /\ pc[t] = "log_fetching"
    /\ append_log(t, Message("Fetching live stream URL", 0), None, FALSE)
    /\ Goto(t, "resolve")
    /\ UNCHANGED <<envvars, regvars, locvars, requests, budget>>
    /\ UNCHANGED <<webvars, main>>

(* get_openai_client(); get_live_stream_url(); update(stream_url=...) *)
Resolve(t) ==
    /\ pc[t] = "resolve"
    /\ \/ /\ budget.resolves > 0
          /\ budget' = [budget EXCEPT !.resolves = @ - 1]
          /\ Update(t, [stream_url |-> "url", updated_at |-> clock + 1])
          /\ Goto(t, "log_fetched")
          /\ UNCHANGED exc
       \/ /\ exc' = [exc EXCEPT ![t] = "resolution failed"]
          /\ Goto(t, "except")
          /\ UNCHANGED <<session, clock, budget>>
    /\ UNCHANGED <<logs, envvars, regvars, sess, frame_index, first_frame_sent,
                   conversation, response, requests>>
    /\ UNCHANGED elapsed
    /\ UNCHANGED <<webvars, main>>

LogFetched(t) ==
    /\ pc[t] = "log_fetched"
    /\ append_log(t, Message("Stream URL fetched.", 0), None, FALSE)
    /\ Goto(t, "log_launching")
    /\ UNCHANGED <<envvars, regvars, locvars, requests, budget>>
    /\ UNCHANGED <<webvars, main>>

LogLaunching(t) ==
    /\ pc[t] = "log_launching"
    /\ append_log(t, Message("Launching ffmpeg frame capture", 0), None, FALSE)
    /\ Goto(t, "launch")
    /\ UNCHANGED <<envvars, regvars, locvars, requests, budget>>
    /\ UNCHANGED <<webvars, main>>

LaunchNoUnlink(t) ==
    /\ pc[t] = "launch"
    /\ \/ /\ proc' = [proc EXCEPT ![t] = "running"]
          /\ Goto(t, "log_started")
          /\ UNCHANGED exc
       \/ /\ exc' = [exc EXCEPT ![t] = "ffmpeg launch failed"]
          /\ Goto(t, "except")
          /\ UNCHANGED proc
    /\ UNCHANGED <<dbvars, files, written, regvars, sess, frame_index, first_frame_sent,
                   conversation, response, requests, budget>>
    /\ UNCHANGED elapsed
    /\ UNCHANGED <<webvars, main>>

(* ffmpeg_proc = start_ffmpeg_frame_dump(stream_url, output_dir) *)
Launch(t) ==
    /\ pc[t] = "launch"
    /\ files' = [files EXCEPT ![sess[t]] = ClearedDir]
    /\ \/ /\ proc' = [proc EXCEPT ![t] = "running"]
          /\ Goto(t, "log_started")
          /\ UNCHANGED exc
       \/ /\ exc' = [exc EXCEPT ![t] = "ffmpeg launch failed"]
          /\ Goto(t, "except")
          /\ UNCHANGED proc
    /\ UNCHANGED <<dbvars, written, regvars, sess, frame_index, first_frame_sent,
                   conversation, response, requests, budget>>
    /\ UNCHANGED elapsed
    /\ UNCHANGED <<webvars, main>>

LogStarted(t) ==
    /\ pc[t] = "log_started"
    /\ append_log(t, Message("Monitoring started.", 0), None, FALSE)
    /\ conversation' = [conversation EXCEPT ![t] = <<SystemTurn(sess[t])>>]
    /\ frame_index' = [frame_index EXCEPT ![t] = 1]
    /\ first_frame_sent' = [first_frame_sent EXCEPT ![t] = FALSE]
    /\ elapsed' = [elapsed EXCEPT ![t] = 0]
    /\ Goto(t, "wait")
    /\ UNCHANGED <<envvars, regvars, sess, response, exc, requests, budget>>
    /\ UNCHANGED <<webvars, main>>

(* `while not frame_path.exists():` *)
WaitFrame(t) ==
    /\ pc[t] = "wait"
    /\ IF exists(sess[t], frame_index[t])
       THEN Goto(t, "log_processing") /\ elapsed' = [elapsed EXCEPT ![t] = 0]
       ELSE Goto(t, "poll") /\ UNCHANGED elapsed
    /\ UNCHANGED <<dbvars, envvars, regvars, sess, frame_index, first_frame_sent,
                   conversation, response, exc, requests, budget>>
    /\ UNCHANGED <<webvars, main>>

PollFrameAtDeadline(t) ==
    /\ pc[t] = "poll"
    /\ IF proc[t] # "running"
       THEN Goto(t, "log_ended") /\ elapsed' = [elapsed EXCEPT ![t] = 0]
       ELSE IF elapsed[t] >= FRAME_TIMEOUT_SECONDS
       THEN Goto(t, "log_timeout") /\ elapsed' = [elapsed EXCEPT ![t] = 0]
       ELSE /\ \E d \in SleepSteps :
                  elapsed' = [elapsed EXCEPT
                                 ![t] = IF @ + d > FRAME_TIMEOUT_SECONDS
                                        THEN FRAME_TIMEOUT_SECONDS + 1 ELSE @ + d]
            /\ Goto(t, "wait")
    /\ UNCHANGED <<dbvars, envvars, regvars, sess, frame_index, first_frame_sent,
                   conversation, response, exc, requests, budget>>
    /\ UNCHANGED <<webvars, main>>

PollFrameNoDeadline(t) ==
    /\ pc[t] = "poll"
    /\ IF proc[t] # "running"
       THEN Goto(t, "log_ended") /\ elapsed' = [elapsed EXCEPT ![t] = 0]
       ELSE /\ \E d \in SleepSteps :
                  elapsed' = [elapsed EXCEPT
                                 ![t] = IF @ + d > FRAME_TIMEOUT_SECONDS
                                        THEN FRAME_TIMEOUT_SECONDS + 1 ELSE @ + d]
            /\ Goto(t, "wait")
    /\ UNCHANGED <<dbvars, envvars, regvars, sess, frame_index, first_frame_sent,
                   conversation, response, exc, requests, budget>>
    /\ UNCHANGED <<webvars, main>>

(* the body of the wait: poll(), the deadline test, sleep(0.5).  The time  *)
(* the wait has taken grows by the length of each pass; values above the   *)
(* deadline are all recorded as FRAME_TIMEOUT_SECONDS + 1.  wait_start is  *)
(* not read outside the wait, so elapsed is kept at 0 there.               *)
PollFrame(t) ==
    /\ pc[t] = "poll"
    /\ IF proc[t] # "running"
       THEN Goto(t, "log_ended") /\ elapsed' = [elapsed EXCEPT ![t] = 0]
       ELSE IF elapsed[t] > FRAME_TIMEOUT_SECONDS
       THEN Goto(t, "log_timeout") /\ elapsed' = [elapsed EXCEPT ![t] = 0]
       ELSE /\ \E d \in SleepSteps :
                  elapsed' = [elapsed EXCEPT
                                 ![t] = IF @ + d > FRAME_TIMEOUT_SECONDS
                                        THEN FRAME_TIMEOUT_SECONDS + 1 ELSE @ + d]
            /\ Goto(t, "wait")
    /\ UNCHANGED <<dbvars, envvars, regvars, sess, frame_index, first_frame_sent,
                   conversation, response, exc, requests, budget>>
    /\ UNCHANGED <<webvars, main>>

LogEnded(t) ==
    /\ pc[t] = "log_ended"
    /\ append_log(t, Message("ffmpeg process ended before creating the next frame.", 0),
                  frame_index[t], FALSE)
    /\ Goto(t, "recheck")
    /\ UNCHANGED <<envvars, regvars, locvars, requests, budget>>
    /\ UNCHANGED <<webvars, main>>

LogTimeoutNoFrame(t) ==
    /\ pc[t] = "log_timeout"
    /\ append_log(t, Message("Timed out waiting for the next frame.", 0), None, FALSE)
    /\ Goto(t, "recheck")
    /\ UNCHANGED <<envvars, regvars, locvars, requests, budget>>
    /\ UNCHANGED <<webvars, main>>

LogTimeout(t) ==
    /\ pc[t] = "log_timeout"
    /\ append_log(t, Message("Timed out waiting for the next frame.", 0),
                  frame_index[t], FALSE)
    /\ Goto(t, "recheck")
    /\ UNCHANGED <<envvars, regvars, locvars, requests, budget>>
    /\ UNCHANGED <<webvars, main>>

RecheckAlwaysBreak(t) ==
    /\ pc[t] = "recheck"
    /\ Goto(t, "update_completed")
    /\ UNCHANGED <<dbvars, envvars, regvars, locvars, requests, budget>>
    /\ UNCHANGED <<webvars, main>>

(* `if not frame_path.exists(): break` *)
Recheck(t) ==
    /\ pc[t] = "recheck"
    /\ IF exists(sess[t], frame_index[t])
       THEN Goto(t, "log_processing")
       ELSE Goto(t, "update_completed")
    /\ UNCHANGED <<dbvars, envvars, regvars, locvars, requests, budget>>
    /\ UNCHANGED <<webvars, main>>

LogProcessing(t) ==
    /\ pc[t] = "log_processing"
    /\ append_log(t, Message("Processing frame", frame_index[t]), frame_index[t], FALSE)
    /\ Goto(t, "append_turn")
    /\ UNCHANGED <<envvars, regvars, locvars, requests, budget>>
    /\ UNCHANGED <<webvars, main>>

(* encode_image_file_to_base64, user_message, append and prune *)
AppendTurn(t) ==
    /\ pc[t] = "append_turn"
    /\ IF exists(sess[t], frame_index[t])
       THEN /\ conversation' = [conversation EXCEPT ![t] =
                   AppendFrame(@, UserTurn(~first_frame_sent[t], frame_index[t]))]
            /\ first_frame_sent' = [first_frame_sent EXCEPT ![t] = TRUE]
            /\ Goto(t, "log_analyzing")
            /\ UNCHANGED exc
       ELSE /\ exc' = [exc EXCEPT ![t] = "frame file not found"]
            /\ Goto(t, "except")
            /\ UNCHANGED <<conversation, first_frame_sent>>
    /\ UNCHANGED <<dbvars, envvars, regvars, sess, frame_index, response, requests, budget>>
    /\ UNCHANGED elapsed
    /\ UNCHANGED <<webvars, main>>

LogAnalyzingAsProcessing(t) ==
    /\ pc[t] = "log_analyzing"
    /\ append_log(t, Message("Processing frame", frame_index[t]), frame_index[t], FALSE)
    /\ Goto(t, "infer")
    /\ UNCHANGED <<envvars, regvars, locvars, requests, budget>>
    /\ UNCHANGED <<webvars, main>>

LogAnalyzing(t) ==
    /\ pc[t] = "log_analyzing"
    /\ append_log(t, Message("Analyzing frame with GPT", frame_index[t]), frame_index[t], FALSE)
    /\ Goto(t, "infer")
    /\ UNCHANGED <<envvars, regvars, locvars, requests, budget>>
    /\ UNCHANGED <<webvars, main>>

Request(t, outcome) ==
    [by |-> t, frame |-> frame_index[t], input |-> conversation[t], outcome |-> outcome]

InferRetryAll(t) ==
    /\ pc[t] = "infer"
    /\ \/ \E r \in Replies :
             /\ requests' = Append(requests, Request(t, "ok"))
             /\ response' = [response EXCEPT ![t] = r]
             /\ Goto(t, "log_reply")
             /\ UNCHANGED <<exc, budget>>
       \/ /\ budget.throttles > 0
          /\ budget' = [budget EXCEPT !.throttles = @ - 1]
          /\ requests' = Append(requests, Request(t, "throttled"))
          /\ Goto(t, "log_ratelimit")
          /\ UNCHANGED <<response, exc>>
       \/ /\ budget.throttles > 0
          /\ budget' = [budget EXCEPT !.throttles = @ - 1]
          /\ requests' = Append(requests, Request(t, "failed"))
          /\ Goto(t, "log_ratelimit")
          /\ UNCHANGED <<response, exc>>
    /\ UNCHANGED <<dbvars, envvars, regvars, sess, frame_index, first_frame_sent,
                   conversation>>
    /\ UNCHANGED elapsed
    /\ UNCHANGED <<webvars, main>>

(* client.responses.create(...) inside the retry loop *)
Infer(t) ==
    /\ pc[t] = "infer"
    /\ \/ \E r \in Replies :
             /\ requests' = Append(requests, Request(t, "ok"))
             /\ response' = [response EXCEPT ![t] = r]
             /\ Goto(t, "log_reply")
             /\ UNCHANGED <<exc, budget>>
       \/ /\ budget.throttles > 0
          /\ budget' = [budget EXCEPT !.throttles = @ - 1]
          /\ requests' = Append(requests, Request(t, "throttled"))
          /\ Goto(t, "log_ratelimit")
          /\ UNCHANGED <<response, exc>>
       \/ /\ requests' = Append(requests, Request(t, "failed"))
          /\ exc' = [exc EXCEPT ![t] = "inference failed"]
          /\ Goto(t, "except")
          /\ UNCHANGED <<response, budget>>
    /\ UNCHANGED <<dbvars, envvars, regvars, sess, frame_index, first_frame_sent,
                   conversation>>
    /\ UNCHANGED elapsed
    /\ UNCHANGED <<webvars, main>>

LogRateLimitGiveUp(t) ==
    /\ pc[t] = "log_ratelimit"
    /\ append_log(t, Message("Rate limit hit. Retrying shortly", 0), frame_index[t], FALSE)
    /\ exc' = [exc EXCEPT ![t] = "rate limit"]
    /\ Goto(t, "except")
    /\ UNCHANGED <<envvars, regvars, sess, frame_index, first_frame_sent,
                   conversation, response, requests, budget>>
    /\ UNCHANGED elapsed
    /\ UNCHANGED <<webvars, main>>

(* `except openai.RateLimitError`: log, sleep(2), retry *)
LogRateLimit(t) ==
    /\ pc[t] = "log_ratelimit"
    /\ append_log(t, Message("Rate limit hit. Retrying shortly", 0), frame_index[t], FALSE)
    /\ Goto(t, "infer")
    /\ UNCHANGED <<envvars, regvars, locvars, requests, budget>>
    /\ UNCHANGED <<webvars, main>>

reply_text(t) == strip(ReplyText[response[t]])

LogReplyContinue(t) ==
    /\ pc[t] = "log_reply"
    /\ append_log(t, Message("GPT", response[t]), frame_index[t], FALSE)
    /\ frame_index' = [frame_index EXCEPT ![t] = @ + 1]
    /\ elapsed' = [elapsed EXCEPT ![t] = 0]
    /\ Goto(t, "wait")
    /\ UNCHANGED <<envvars, regvars, sess, first_frame_sent, conversation, response,
                   exc, requests, budget>>
    /\ UNCHANGED <<webvars, main>>

LogReplySkip(t) ==
    /\ pc[t] = "log_reply"
    /\ append_log(t, Message("GPT", response[t]), frame_index[t], FALSE)
    /\ IF decide(reply_text(t))
       THEN /\ Goto(t, "log_alert")
            /\ UNCHANGED <<frame_index, elapsed>>
       ELSE /\ frame_index' = [frame_index EXCEPT ![t] = @ + 2]
            /\ elapsed' = [elapsed EXCEPT ![t] = 0]
            /\ Goto(t, "wait")
    /\ UNCHANGED <<envvars, regvars, sess, first_frame_sent, conversation, response,
                   exc, requests, budget>>
    /\ UNCHANGED <<webvars, main>>

(* the reply entry, then the event decision of line 244 *)
LogReply(t) ==
    /\ pc[t] = "log_reply"
    /\ append_log(t, Message("GPT", response[t]), frame_index[t], FALSE)
    /\ IF decide(reply_text(t))
       THEN /\ Goto(t, "log_alert")
            /\ UNCHANGED <<frame_index, elapsed>>
       ELSE /\ frame_index' = [frame_index EXCEPT ![t] = @ + 1]
            /\ elapsed' = [elapsed EXCEPT ![t] = 0]
            /\ Goto(t, "wait")
    /\ UNCHANGED <<envvars, regvars, sess, first_frame_sent, conversation, response,
                   exc, requests, budget>>
    /\ UNCHANGED <<webvars, main>>

LogAlert(t) ==
    /\ pc[t] = "log_alert"
    /\ append_log(t, Message("Event detected!", 0), frame_index[t], TRUE)
    /\ Goto(t, "update_detected")
    /\ UNCHANGED <<envvars, regvars, locvars, requests, budget>>
    /\ UNCHANGED <<webvars, main>>

UpdateDetectedNoReturn(t) ==
    /\ pc[t] = "update_detected"
    /\ Update(t, [status |-> COMPLETED, event_detected |-> TRUE,
                  finished_at |-> clock + 1, updated_at |-> clock + 1])
    /\ frame_index' = [frame_index EXCEPT ![t] = @ + 1]
    /\ elapsed' = [elapsed EXCEPT ![t] = 0]
    /\ Goto(t, "wait")
    /\ UNCHANGED <<logs, envvars, regvars, sess, first_frame_sent, conversation,
                   response, exc, requests, budget>>
    /\ UNCHANGED <<webvars, main>>

UpdateDetected(t) ==
    /\ pc[t] = "update_detected"
    /\ Update(t, [status |-> COMPLETED, event_detected |-> TRUE,
                  finished_at |-> clock + 1, updated_at |-> clock + 1])
    /\ Goto(t, "finally")
    /\ UNCHANGED <<logs, envvars, regvars, locvars, requests, budget>>
    /\ UNCHANGED <<webvars, main>>

UpdateCompletedNoStatus(t) ==
    /\ pc[t] = "update_completed"
    /\ Update(t, [finished_at |-> clock + 1, updated_at |-> clock + 1])
    /\ Goto(t, "log_completed")
    /\ UNCHANGED <<logs, envvars, regvars, locvars, requests, budget>>
    /\ UNCHANGED <<webvars, main>>

UpdateCompleted(t) ==
    /\ pc[t] = "update_completed"
    /\ Update(t, [status |-> COMPLETED, finished_at |-> clock + 1,
                  updated_at |-> clock + 1])
    /\ Goto(t, "log_completed")
    /\ UNCHANGED <<logs, envvars, regvars, locvars, requests, budget>>
    /\ UNCHANGED <<webvars, main>>

LogCompletedRaises(t) ==
    /\ pc[t] = "log_completed"
    /\ exc' = [exc EXCEPT ![t] = "log write failed"]
    /\ Goto(t, "except")
    /\ UNCHANGED <<dbvars, envvars, regvars, sess, frame_index, first_frame_sent,
                   conversation, response, requests, budget>>
    /\ UNCHANGED elapsed
    /\ UNCHANGED <<webvars, main>>

LogCompleted(t) ==
    /\ pc[t] = "log_completed"
    /\ append_log(t, Message("Monitoring completed without detecting the event.", 0),
                  None, FALSE)
    /\ Goto(t, "finally")
    /\ UNCHANGED <<envvars, regvars, locvars, requests, budget>>
    /\ UNCHANGED <<webvars, main>>

(* `except Exception as exc:` *)
Except(t) ==
    /\ pc[t] = "except"
    /\ Update(t, [status |-> ERROR, error_message |-> exc[t],
                  finished_at |-> clock + 1, updated_at |-> clock + 1])
    /\ Goto(t, "log_failed")
    /\ UNCHANGED <<logs, envvars, regvars, locvars, requests, budget>>
    /\ UNCHANGED <<webvars, main>>

LogFailedSilent(t) ==
    /\ pc[t] = "log_failed"
    /\ Goto(t, "finally")
    /\ UNCHANGED <<dbvars, envvars, regvars, locvars, requests, budget>>
    /\ UNCHANGED <<webvars, main>>

LogFailed(t) ==
    /\ pc[t] = "log_failed"
    /\ append_log(t, Message("Monitoring failed", exc[t]), None, FALSE)
    /\ Goto(t, "finally")
    /\ UNCHANGED <<envvars, regvars, locvars, requests, budget>>
    /\ UNCHANGED <<webvars, main>>

FinallyOnSuccessOnly(t) ==
    /\ pc[t] = "finally"
    /\ IF exc[t] # ""
       THEN /\ Goto(t, "returned")
            /\ UNCHANGED proc
       ELSE IF proc[t] = "running"
            THEN /\ proc' = [proc EXCEPT ![t] = "terminating"]
                 /\ Goto(t, "wait_term")
            ELSE /\ Goto(t, "log_stopped")
                 /\ UNCHANGED proc
    /\ UNCHANGED <<dbvars, files, written, regvars, locvars, requests, budget>>
    /\ UNCHANGED <<webvars, main>>

(* `finally:` if ffmpeg_proc and ffmpeg_proc.poll() is None: terminate() *)
Finally(t) ==
    /\ pc[t] = "finally"
    /\ IF proc[t] = "running"
       THEN /\ proc' = [proc EXCEPT ![t] = "terminating"]
            /\ Goto(t, "wait_term")
       ELSE /\ Goto(t, "log_stopped")
            /\ UNCHANGED proc
    /\ UNCHANGED <<dbvars, files, written, regvars, locvars, requests, budget>>
    /\ UNCHANGED <<webvars, main>>

WaitTermNoKill(t) ==
    /\ pc[t] = "wait_term"
    /\ Goto(t, "log_stopped")
    /\ UNCHANGED <<dbvars, envvars, regvars, locvars, requests, budget>>
    /\ UNCHANGED <<webvars, main>>

(* ffmpeg_proc.wait(timeout=5); on TimeoutExpired: kill() *)
WaitTerm(t) ==
    /\ pc[t] = "wait_term"
    /\ proc' = [proc EXCEPT ![t] = "exited"]
    /\ Goto(t, "log_stopped")
    /\ UNCHANGED <<dbvars, files, written, regvars, locvars, requests, budget>>
    /\ UNCHANGED <<webvars, main>>

LogStopped(t) ==
    /\ pc[t] = "log_stopped"
    /\ append_log(t, Message("Monitoring stopped.", 0), None, FALSE)
    /\ Goto(t, "returned")
    /\ UNCHANGED <<envvars, regvars, locvars, requests, budget>>
    /\ UNCHANGED <<webvars, main>>

Next ==
    \/ \E s \in Sessions : StartIfNeeded(s)
    \/ \E t \in Threads : RunAndCleanup(t)
    \/ \E t \in Threads : FfmpegWrite(t)
    \/ \E t \in Threads : FfmpegExit(t)
    \/ \E t \in Threads : LoopStart(t)
    \/ \E t \in Threads : LogFetching(t)
    \/ \E t \in Threads : Resolve(t)
    \/ \E t \in Threads : LogFetched(t)
    \/ \E t \in Threads : LogLaunching(t)
    \/ \E t \in Threads : Launch(t)
    \/ \E t \in Threads : LogStarted(t)
    \/ \E t \in Threads : WaitFrame(t)
    \/ \E t \in Threads : PollFrame(t)
    \/ \E t \in Threads : LogEnded(t)
    \/ \E t \in Threads : LogTimeout(t)
    \/ \E t \in Threads : Recheck(t)
    \/ \E t \in Threads : LogProcessing(t)
    \/ \E t \in Threads : AppendTurn(t)
    \/ \E t \in Threads : LogAnalyzing(t)
    \/ \E t \in Threads : Infer(t)
    \/ \E t \in Threads : LogRateLimit(t)
    \/ \E t \in Threads : LogReply(t)
    \/ \E t \in Threads : LogAlert(t)
    \/ \E t \in Threads : UpdateDetected(t)
    \/ \E t \in Threads : UpdateCompleted(t)
    \/ \E t \in Threads : LogCompleted(t)
    \/ \E t \in Threads : Except(t)
    \/ \E t \in Threads : LogFailed(t)
    \/ \E t \in Threads : Finally(t)
    \/ \E t \in Threads : WaitTerm(t)
    \/ \E t \in Threads : LogStopped(t)

Spec == Init /\ [][Next]_vars

SpecLoop == InitLoop /\ [][Next]_vars

SpecPair == InitPair /\ [][Next]_vars

(* One run with the scheduling the loop relies on: the thread of a started *)
(* loop keeps being scheduled, so a step of it that stays possible is      *)
(* taken.  Nothing is assumed of the capture process or of the inference   *)
(* service beyond the budget: finitely many frames and throttling signals. *)
InitLive ==
    InitWith({1}, [threads |-> 1, resolves |-> 1,
                   frames |-> MaxFrames, throttles |-> MaxThrottle, until |-> None])

LoopStep(t) ==
    \/ LoopStart(t) \/ LogFetching(t) \/ Resolve(t) \/ LogFetched(t)
    \/ LogLaunching(t) \/ Launch(t) \/ LogStarted(t) \/ WaitFrame(t)
    \/ PollFrame(t) \/ LogEnded(t) \/ LogTimeout(t) \/ Recheck(t)
    \/ LogProcessing(t) \/ AppendTurn(t) \/ LogAnalyzing(t) \/ Infer(t)
    \/ LogRateLimit(t) \/ LogReply(t) \/ LogAlert(t) \/ UpdateDetected(t)
    \/ UpdateCompleted(t) \/ LogCompleted(t) \/ Except(t) \/ LogFailed(t)
    \/ Finally(t) \/ WaitTerm(t) \/ LogStopped(t) \/ RunAndCleanup(t)

SpecLive ==
    InitLive /\ [][Next]_vars /\ \A t \in Threads : WF_vars(LoopStep(t))

(* ----------------------- the event decision alone ---------------------- *)
(* Texts the inference service may answer with: a phrase, in several       *)
(* spellings, with something before and after it.                          *)
ReplyPrefixes ==
    {<<>>,
     <<" ">>,
     <<"N","o"," ">>}
ReplyPhrases ==
    {<<"y","e","s">>,
     <<"Y","e","s">>,
     <<"Y","E","S">>,
     <<"y","E","s">>,
     <<"y","e"," ","s">>,
     <<"e","y","e","s">>,
     <<"y","s","e">>,
     <<"n","o">>,
     <<"e","s">>,
     <<>>,
     <<"e","v","e","n","t"," ","d","e","t","e","c","t","e","d">>,
     <<"E","V","E","N","T"," ","D","E","T","E","C","T","E","D">>,
     <<"E","v","e","n","t"," ","D","e","t","e","c","t","e","d">>,
     <<"e","v","e","n","t"," "," ","d","e","t","e","c","t","e","d">>,
     <<"e","v","e","n","t","d","e","t","e","c","t","e","d">>,
     <<"e","v","e","n","t"," ","d","e","t","e","c","t","e">>,
     <<"c","h","a","n","g","e"," ","o","b","s","e","r","v","e","d">>}
ReplySuffixes ==
    {<<>>,
     <<" ">>,
     <<","," ","t","h","e"," ","e","v","e","n","t"," ","h","a","p","p","e","n","e","d">>,
     <<" ","a","t"," ","f","r","a","m","e"," ","1","2">>}
DecideTexts ==
    {p \o c \o s : p \in ReplyPrefixes, c \in ReplyPhrases, s \in ReplySuffixes}

(* A loop that has just received the reply for frame 1; here response[t]   *)
(* holds response.output_text itself.                                      *)
InitDecide ==
    /\ InitViews
    /\ main = MainIdle
    /\ budget = [threads |-> 0, resolves |-> 0, frames |-> 0, throttles |-> 0,
                 until |-> None]
    /\ session = [s \in {1} |-> [NewSession EXCEPT !.status = RUNNING]]
    /\ logs = <<>>
    /\ clock = 0
    /\ files = [s \in Sessions |-> <<>>]
    /\ proc = [t \in Threads |-> "none"]
    /\ written = [t \in Threads |-> 0]
    /\ _threads = [s \in Sessions |-> 1]
    /\ nthreads = 1
    /\ pc = [t \in Threads |-> IF t = 1 THEN "classify" ELSE "unborn"]
    /\ sess = [t \in Threads |-> IF t = 1 THEN 1 ELSE None]
    /\ frame_index = [t \in Threads |-> IF t = 1 THEN 1 ELSE 0]
    /\ first_frame_sent = [t \in Threads |-> t = 1]
    /\ conversation = [t \in Threads |-> <<>>]
    /\ \E text \in DecideTexts :
          response = [t \in Threads |-> IF t = 1 THEN text ELSE None]
    /\ exc = [t \in Threads |-> ""]
    /\ elapsed = [t \in Threads |-> 0]
    /\ requests = <<>>

(* reply_text = response.output_text.strip(); the test of line 244 *)
Classify(t) ==
    /\ pc[t] = "classify"
    /\ IF decide(strip(response[t]))
       THEN Goto(t, "detected")
       ELSE Goto(t, "continue")
    /\ UNCHANGED <<dbvars, envvars, regvars, locvars, requests, budget>>
    /\ UNCHANGED <<webvars, main>>

NextDecide == \E t \in Threads : Classify(t)

SpecDecide == InitDecide /\ [][NextDecide]_vars

(* --------------------------- views.py: streams -------------------------- *)
SourceTypes == {"webcam", "rtsp"}
LiveSources == {"rtsp", "youtube_live"}
STALLED == "Live source stalled."
CANNOT_OPEN == "Unable to open video source."
(* no error text: None, which `if error:` takes like the empty string *)
NoError == ""

(* the entry start_stream registers *)
NewStream(source_type) ==
    [running |-> TRUE, ended |-> FALSE, error |-> NoError, frames_in |-> 0,
     source_type |-> source_type]

AnyRunning == \E id \in DOMAIN STREAMS : STREAMS[id].running

Respond(r, status) ==
    req' = [req EXCEPT ![r] = [@ EXCEPT !.pc = "done", !.status = status]]

(* _end_stream(stream_id, error) *)
_end_stream(id, error) ==
    STREAMS' = [STREAMS EXCEPT ![id] =
                   [@ EXCEPT !.running = FALSE, !.ended = TRUE,
                             !.error = IF error # NoError THEN error ELSE @]]

(* start_stream up to the source resolution: the single-stream test, then  *)
(* the source_type of the payload                                          *)
StartStream(r) ==
    /\ req[r].pc = "idle"
    /\ \E st \in SourceTypes \cup {"youtube"} :
          req' = [req EXCEPT ![r] =
                     [@ EXCEPT !.op = "start_stream", !.source_type = st,
                               !.pc = IF ~AnyRunning /\ st \in SourceTypes
                                      THEN "preflight" ELSE "done",
                               !.status = IF AnyRunning THEN 409
                                          ELSE IF st \in SourceTypes THEN None ELSE 400]]
    /\ UNCHANGED <<STREAMS, capture, loopvars, main>>

(* the pre-flight open of the source *)
StartStreamPreflight(r) ==
    /\ req[r].pc = "preflight"
    /\ \/ req' = [req EXCEPT ![r].pc = "register"]
       \/ Respond(r, 400)
    /\ UNCHANGED <<STREAMS, capture, loopvars, main>>

(* STREAMS[stream_id] = {...}; the capture thread is started *)
StartStreamRegister(r) ==
    /\ req[r].pc = "register"
    /\ STREAMS' = Append(STREAMS, NewStream(req[r].source_type))
    /\ capture' = Append(capture, [pc |-> "start", fail_count |-> 0, opened |-> FALSE])
    /\ req' = [req EXCEPT ![r] = [@ EXCEPT !.pc = "done", !.status = 200,
                                            !.stream_id = Len(STREAMS) + 1]]
    /\ UNCHANGED <<loopvars, main>>

StopStreamEndedFirst(r) ==
    /\ req[r].pc = "idle"
    /\ \E id \in StreamIds :
          IF id \in DOMAIN STREAMS
          THEN /\ STREAMS' = [STREAMS EXCEPT ![id].ended = TRUE]
               /\ req' = [req EXCEPT ![r] = [@ EXCEPT !.op = "stop_stream", !.pc = "join",
                                                       !.stream_id = id]]
          ELSE /\ req' = [req EXCEPT ![r] = [@ EXCEPT !.op = "stop_stream", !.pc = "done",
                                                       !.status = 400]]
               /\ UNCHANGED STREAMS
    /\ UNCHANGED <<capture, loopvars, main>>

(* stop_stream up to state['running'] = False *)
StopStream(r) ==
    /\ req[r].pc = "idle"
    /\ \E id \in StreamIds :
          IF id \in DOMAIN STREAMS
          THEN /\ STREAMS' = [STREAMS EXCEPT ![id].running = FALSE]
               /\ req' = [req EXCEPT ![r] = [@ EXCEPT !.op = "stop_stream", !.pc = "join",
                                                       !.stream_id = id]]
          ELSE /\ req' = [req EXCEPT ![r] = [@ EXCEPT !.op = "stop_stream", !.pc = "done",
                                                       !.status = 400]]
               /\ UNCHANGED STREAMS
    /\ UNCHANGED <<capture, loopvars, main>>

(* th.join(timeout=2) has returned, the thread ended or not; ended = True *)
StopStreamJoin(r) ==
    /\ req[r].pc = "join"
    /\ STREAMS' = [STREAMS EXCEPT ![req[r].stream_id].ended = TRUE]
    /\ Respond(r, 200)
    /\ UNCHANGED <<capture, loopvars, main>>

(* _capture_loop: VideoCapture(source), isOpened() *)
CaptureOpen(id) ==
    /\ capture[id].pc = "start"
    /\ \/ /\ capture' = [capture EXCEPT ![id].pc = "loop", ![id].opened = TRUE]
          /\ UNCHANGED STREAMS
       \/ /\ _end_stream(id, CANNOT_OPEN)
          /\ capture' = [capture EXCEPT ![id].pc = "exited"]
    /\ UNCHANGED <<req, loopvars, main>>

(* `while state.get('running', False):`, cap.release() after the loop *)
CaptureTest(id) ==
    /\ capture[id].pc = "loop"
    /\ capture' = [capture EXCEPT ![id].pc = IF STREAMS[id].running THEN "read" ELSE "exited"]
    /\ UNCHANGED <<STREAMS, req, loopvars, main>>

CaptureReadNoReset(id) ==
    /\ capture[id].pc = "read"
    /\ \/ /\ capture[id].opened
          /\ STREAMS[id].frames_in < MaxPreview
          /\ STREAMS' = [STREAMS EXCEPT ![id].frames_in = @ + 1]
          /\ capture' = [capture EXCEPT ![id].pc = "loop"]
       \/ /\ STREAMS[id].source_type \in LiveSources
          /\ \/ /\ capture' = [capture EXCEPT ![id] =
                                  [pc |-> "loop", fail_count |-> @.fail_count, opened |-> TRUE]]
                /\ UNCHANGED STREAMS
             \/ /\ capture[id].fail_count + 1 < 5
                /\ capture' = [capture EXCEPT ![id] =
                                  [pc |-> "loop", fail_count |-> @.fail_count + 1,
                                   opened |-> FALSE]]
                /\ UNCHANGED STREAMS
             \/ /\ capture[id].fail_count + 1 >= 5
                /\ _end_stream(id, STALLED)
                /\ capture' = [capture EXCEPT ![id] =
                                  [pc |-> "exited", fail_count |-> @.fail_count + 1,
                                   opened |-> FALSE]]
       \/ /\ STREAMS[id].source_type \notin LiveSources
          /\ _end_stream(id, NoError)
          /\ capture' = [capture EXCEPT ![id].pc = "exited"]
    /\ UNCHANGED <<req, loopvars, main>>

(* cap.read() and what follows it in the loop body.  A capture that is not *)
(* open returns no frame; a failed read of a live source is followed by    *)
(* release(), the sleep and VideoCapture(source) again.                    *)
CaptureRead(id) ==
    /\ capture[id].pc = "read"
    /\ \/ /\ capture[id].opened
          /\ STREAMS[id].frames_in < MaxPreview
          /\ STREAMS' = [STREAMS EXCEPT ![id].frames_in = @ + 1]
          /\ capture' = [capture EXCEPT ![id].pc = "loop"]
       \/ /\ STREAMS[id].source_type \in LiveSources
          /\ \/ /\ capture' = [capture EXCEPT ![id] =
                                  [pc |-> "loop", fail_count |-> 0, opened |-> TRUE]]
                /\ UNCHANGED STREAMS
             \/ /\ capture[id].fail_count + 1 < 5
                /\ capture' = [capture EXCEPT ![id] =
                                  [pc |-> "loop", fail_count |-> @.fail_count + 1,
                                   opened |-> FALSE]]
                /\ UNCHANGED STREAMS
             \/ /\ capture[id].fail_count + 1 >= 5
                /\ _end_stream(id, STALLED)
                /\ capture' = [capture EXCEPT ![id] =
                                  [pc |-> "exited", fail_count |-> @.fail_count + 1,
                                   opened |-> FALSE]]
       \/ /\ STREAMS[id].source_type \notin LiveSources
          /\ _end_stream(id, NoError)
          /\ capture' = [capture EXCEPT ![id].pc = "exited"]
    /\ UNCHANGED <<req, loopvars, main>>

InitWeb ==
    InitWith({1}, [threads |-> 0, resolves |-> 0, frames |-> 0, throttles |-> 0,
                   until |-> None])

NextWeb ==
    \/ \E r \in Handlers : StartStream(r)
    \/ \E r \in Handlers : StartStreamPreflight(r)
    \/ \E r \in Handlers : StartStreamRegister(r)
    \/ \E r \in Handlers : StopStream(r)
    \/ \E r \in Handlers : StopStreamJoin(r)
    \/ \E id \in DOMAIN STREAMS : CaptureOpen(id)
    \/ \E id \in DOMAIN STREAMS : CaptureTest(id)
    \/ \E id \in DOMAIN STREAMS : CaptureRead(id)

SpecWeb == InitWeb /\ [][NextWeb]_vars

(* the capture thread of a registered stream keeps being scheduled; the    *)
(* handlers and the video source owe nothing                               *)
CaptureStep(id) ==
    /\ id \in DOMAIN STREAMS
    /\ CaptureOpen(id) \/ CaptureTest(id) \/ CaptureRead(id)

SpecWebLive ==
    InitWeb /\ [][NextWeb]_vars /\ \A id \in StreamIds : WF_vars(CaptureStep(id))

(* ------------------------------ properties ----------------------------- *)
Terminal == {COMPLETED, ERROR}

(* threads that are inside _run_and_cleanup for session s *)
LoopsOf(s) == {t \in Threads : sess[t] = s /\ is_alive(t)}

(* capture processes of session s that have not ended *)
CapturesOf(s) == {t \in Threads : sess[t] = s /\ proc[t] \in {"running", "terminating"}}

(* the loop of session s has finished and no newer one was launched *)
Finished(s) ==
    /\ \E t \in Threads : sess[t] = s
    /\ \A t \in Threads : sess[t] = s => pc[t] \in {"returned", "dead"}

(* C1: under every interleaving of start_if_needed calls, a session id has *)
(* at most one live loop thread, hence at most one live capture process.   *)
C1_OneLoopPerSession ==
    \A s \in Sessions :
        /\ Cardinality(LoopsOf(s)) <= 1
        /\ Cardinality(CapturesOf(s)) <= 1

(* the first call has launched the loop of a session that is still        *)
(* pending: a second call now finds the thread alive and returns.          *)
C1_Witness ==
    \E s \in Sessions :
        /\ session[s].status = PENDING
        /\ IsActive(s)
        /\ nthreads = 1

(* C2: last_frame_number of a session never decreases from one observation *)
(* to the next, across append_log calls and across loop starts.            *)
C2_LastFrameMonotone ==
    [][\A s \in Sessions :
          session'[s].last_frame_number >= session[s].last_frame_number]_vars

(* a later run has logged a frame below the stored last_frame_number *)
C2_Witness ==
    \E i \in 1..Len(logs) :
        /\ logs[i].by > 1
        /\ logs[i].frame_number # None
        /\ logs[i].frame_number < session[logs[i].session_id].last_frame_number

(* C3: once _monitoring_loop has returned, on whatever path, the capture   *)
(* process it started is not alive.                                        *)
C3_NoCaptureAfterLoop ==
    \A t \in Threads :
        pc[t] \in {"returned", "dead"} => proc[t] \notin {"running", "terminating"}

(* a loop that failed while its capture process was started has returned *)
C3_Witness ==
    \E t \in Threads :
        /\ pc[t] = "returned"
        /\ proc[t] = "exited"
        /\ session[sess[t]].status = ERROR
        /\ session[sess[t]].error_message = "inference failed"

(* C4: when the loop of a session has finished, the status is completed    *)
(* (with or without event_detected) or error, never pending or running.    *)
C4_FinalStatus ==
    \A s \in Sessions :
        Finished(s) => session[s].status \in Terminal

(* a loop has finished on the no-more-frames path *)
C4_Witness ==
    \E s \in Sessions :
        /\ Finished(s)
        /\ session[s].status = COMPLETED
        /\ ~session[s].event_detected

STOPPED == "Monitoring stopped."
NOT_DETECTED == "Monitoring completed without detecting the event."
FAILED == "Monitoring failed"
Closing == {NOT_DETECTED, FAILED, STOPPED}

LogsOf(s) == SelectSeq(logs, LAMBDA e : e.session_id = s)
LastText(s) == IF LogsOf(s) = <<>> THEN "" ELSE LogsOf(s)[Len(LogsOf(s))].message.text

(* C5 as stated: once completed or error has been written for a session,   *)
(* no further LogEntry is appended for it.                                 *)
C5_NoLogAfterFinal ==
    [][Len(logs') > Len(logs) =>
          session[logs'[Len(logs')].session_id].status \notin Terminal]_vars

(* C5 amended: after the final status the loop appends only the closing    *)
(* entries: at most one entry for the transition (completed without alert, *)
(* or failed), then one "Monitoring stopped." entry, and nothing after it. *)
C5_OnlyClosingLogsAfterFinal ==
    [][Len(logs') > Len(logs) =>
          LET e == logs'[Len(logs')]
              s == e.session_id
          IN  session[s].status \in Terminal =>
                /\ e.message.text \in Closing
                /\ e.message.text = STOPPED => LastText(s) # STOPPED
                /\ e.message.text # STOPPED => LastText(s) \notin Closing
                /\ e.message.text = NOT_DETECTED =>
                       session[s].status = COMPLETED /\ ~session[s].event_detected
                /\ e.message.text = FAILED => session[s].status = ERROR]_vars

(* a run that ended without detection has appended its two closing entries *)
C5_Witness ==
    \E s \in Sessions :
        LET l == LogsOf(s) IN
        /\ session[s].status = COMPLETED
        /\ Len(l) >= 2
        /\ l[Len(l)].message.text = STOPPED
        /\ l[Len(l) - 1].message.text = NOT_DETECTED

(* C6 as stated: a status of completed or error never changes again. *)
C6_TerminalNeverLeft ==
    [][\A s \in Sessions :
          session[s].status \in Terminal => session'[s].status = session[s].status]_vars

(* C6 amended: completed and error are left only by the first update of a  *)
(* newly launched loop of that session, which sets running; the run that   *)
(* wrote the final status never changes it.                                *)
C6_TerminalLeftOnlyByNewLoop ==
    [][\A s \in Sessions :
          (session[s].status \in Terminal /\ session'[s].status # session[s].status) =>
             /\ session'[s].status = RUNNING
             /\ \E t \in Threads :
                    /\ sess[t] = s
                    /\ _threads[s] = t
                    /\ pc[t] = "start"
                    /\ pc'[t] = "log_fetching"]_vars

(* a session that had finished is running again *)
C6_Witness ==
    \E s \in Sessions :
        /\ session[s].status = RUNNING
        /\ session[s].finished_at # None

RepliesBy(t) ==
    {i \in 1..Len(logs) : logs[i].by = t /\ logs[i].message.text = "GPT"}
PositiveReplies == {r \in Replies : decide(strip(ReplyText[r]))}
Positive(i) == logs[i].message.arg \in PositiveReplies
AlertsBy(t) == {i \in 1..Len(logs) : logs[i].by = t /\ logs[i].is_alert}
Newest(t) == \A u \in Threads : sess[u] = sess[t] => u <= t

(* C7: after a positive reply for frame N the loop appends one alert entry *)
(* for N, writes completed with event_detected and a finished timestamp,   *)
(* and sends no request for a later frame.                                 *)
C7_DetectionEndsLoop ==
    \A t \in Threads : \A i \in RepliesBy(t) :
        Positive(i) =>
            LET N == logs[i].frame_number
                s == sess[t]
            IN  /\ pc[t] \in {"log_alert", "update_detected", "finally", "wait_term",
                               "log_stopped", "returned", "dead"}
                /\ frame_index[t] = N
                /\ \A j \in 1..Len(requests) :
                       requests[j].by = t => requests[j].frame <= N
                /\ pc[t] = "log_alert" => AlertsBy(t) = {}
                /\ pc[t] # "log_alert" =>
                       \E a \in AlertsBy(t) :
                           /\ AlertsBy(t) = {a}
                           /\ a > i
                           /\ logs[a].frame_number = N
                           /\ logs[a].session_id = s
                /\ (pc[t] \notin {"log_alert", "update_detected"} /\ Newest(t)) =>
                       /\ session[s].status = COMPLETED
                       /\ session[s].event_detected
                       /\ session[s].finished_at > session[s].started_at

(* a loop has returned after a negative reply for frame 1 and a positive   *)
(* reply for frame 2                                                       *)
C7_Witness ==
    \E t \in Threads :
        /\ pc[t] = "returned"
        /\ \E i \in RepliesBy(t) : Positive(i) /\ logs[i].frame_number = 2

ExpectedInput(s, n) ==
    IF n = 1
    THEN <<SystemTurn(s), UserTurn(TRUE, 1)>>
    ELSE <<SystemTurn(s), UserTurn(n - 1 = 1, n - 1), UserTurn(FALSE, n)>>

(* C8: the request for frame 1 carries [system, frame 1]; the request for  *)
(* frame n >= 2 carries [system, frame n-1, frame n], so after frames      *)
(* 1, 2, 3, 4 the window is system plus frames 3 and 4.                    *)
C8_ConversationWindow ==
    \A j \in 1..Len(requests) :
        requests[j].input = ExpectedInput(sess[requests[j].by], requests[j].frame)

(* a request for frame 4 has been sent *)
C8_Witness ==
    \E j \in 1..Len(requests) :
        /\ requests[j].frame = 4
        /\ Len(requests[j].input) = 3

InLoopBody(t) ==
    pc[t] \in {"wait", "poll", "log_ended", "log_timeout", "recheck", "log_processing",
               "append_turn", "log_analyzing", "infer", "log_ratelimit", "log_reply"}

(* C9: in every state of the loop the window has at most 3 turns, the      *)
(* system turn first and only user turns after it.                         *)
C9_WindowBounded ==
    \A t \in Threads :
        /\ InLoopBody(t) => conversation[t] # <<>>
        /\ conversation[t] # <<>> =>
              /\ Len(conversation[t]) <= 3
              /\ conversation[t][1] = SystemTurn(sess[t])
              /\ \A k \in 2..Len(conversation[t]) : conversation[t][k].role = "user"

(* the window after its second prune: system, frame 3, frame 4 *)
C9_Witness ==
    \E t \in Threads :
        /\ InLoopBody(t)
        /\ Len(conversation[t]) = 3
        /\ conversation[t][2].image = 3

RequestsFor(t, n) == SelectSeq(requests, LAMBDA r : r.by = t /\ r.frame = n)
RateLimitLogs(t, n) ==
    {i \in 1..Len(logs) :
        /\ logs[i].by = t
        /\ logs[i].frame_number = n
        /\ logs[i].message.text = "Rate limit hit. Retrying shortly"}

(* C10: a frame whose request is throttled k times and then answered gets  *)
(* exactly k+1 requests with one and the same conversation; a throttled    *)
(* request is always retried and leaves the session running with no error  *)
(* message.                                                                *)
C10_ThrottleRetried ==
    \A t \in Threads : \A n \in 1..frame_index[t] :
        LET R == RequestsFor(t, n)
            k == Cardinality(RateLimitLogs(t, n))
            s == sess[t]
        IN  R # <<>> =>
              /\ \A a \in 1..Len(R) : R[a].input = R[1].input
              /\ \A a \in 1..(Len(R) - 1) : R[a].outcome = "throttled"
              /\ R[Len(R)].outcome = "throttled" =>
                    /\ frame_index[t] = n
                    /\ pc[t] \in {"log_ratelimit", "infer"}
                    /\ Len(R) = IF pc[t] = "log_ratelimit" THEN k + 1 ELSE k
                    /\ session[s].status = RUNNING
                    /\ session[s].error_message = ""
              /\ R[Len(R)].outcome = "ok" => Len(R) = k + 1
              /\ (R[Len(R)].outcome = "ok" /\ frame_index[t] = n /\ pc[t] = "log_reply") =>
                    /\ session[s].status = RUNNING
                    /\ session[s].error_message = ""

(* a request was throttled twice and then answered *)
C10_Witness ==
    \E t \in Threads :
        /\ pc[t] = "log_reply"
        /\ Len(RequestsFor(t, frame_index[t])) = 3
        /\ Cardinality(RateLimitLogs(t, frame_index[t])) = 2

FailedRequests(t) ==
    {j \in 1..Len(requests) : requests[j].by = t /\ requests[j].outcome = "failed"}
AfterExcept == {"log_failed", "finally", "wait_term", "log_stopped", "returned", "dead"}

(* C11: a failure other than throttling is never retried: the failed       *)
(* request is the last one of its loop, a failed resolution or launch      *)
(* leaves no capture process and no request, and the loop goes through the *)
(* handler that writes error, the failure's text and a finished timestamp. *)
C11_FailureEndsLoop ==
    \A t \in Threads :
        /\ \A j \in FailedRequests(t) :
              /\ exc[t] = "inference failed"
              /\ \A k \in (j + 1)..Len(requests) : requests[k].by # t
        /\ exc[t] # "" =>
              /\ pc[t] \in {"except"} \cup AfterExcept
              /\ exc[t] \in {"resolution failed", "ffmpeg launch failed"} =>
                    /\ proc[t] = "none"
                    /\ \A k \in 1..Len(requests) : requests[k].by # t
              /\ (pc[t] \in AfterExcept /\ Newest(t)) =>
                    /\ session[sess[t]].status = ERROR
                    /\ session[sess[t]].error_message = exc[t]
                    /\ session[sess[t]].finished_at > session[sess[t]].started_at

(* a loop whose stream resolution failed has returned *)
C11_Witness ==
    \E t \in Threads :
        /\ pc[t] = "returned"
        /\ exc[t] = "resolution failed"
        /\ session[sess[t]].status = ERROR
        /\ session[sess[t]].error_message = "resolution failed"

TIMED_OUT == "Timed out waiting for the next frame."
ENDED == "ffmpeg process ended before creating the next frame."
PROCESSING == "Processing frame"
ANALYZING == "Analyzing frame with GPT"
REPLY == "GPT"
RATE_LIMIT == "Rate limit hit. Retrying shortly"

LogsBy(t) == {i \in 1..Len(logs) : logs[i].by = t}
FrameLogs(t) == {i \in LogsBy(t) : logs[i].frame_number # None}
Entries(t, text, n) ==
    {i \in LogsBy(t) : logs[i].message.text = text /\ logs[i].frame_number = n}
WaitEnds(t) == {i \in LogsBy(t) : logs[i].message.text \in {TIMED_OUT, ENDED}}
Completions(t) == {i \in LogsBy(t) : logs[i].message.text = NOT_DETECTED}
Max(S) == CHOOSE x \in S : \A y \in S : y <= x

(* the capture process of t wrote frames 1..3 and no more, every reply was *)
(* negative, the wait for frame 4 timed out and the run has logged its     *)
(* completion                                                              *)
Exhausted3(t) ==
    /\ pc[t] \in {"finally", "wait_term", "log_stopped", "returned", "dead"}
    /\ written[t] = 3
    /\ frame_index[t] = 4
    /\ WaitEnds(t) # {}
    /\ logs[Max(WaitEnds(t))].message.text = TIMED_OUT

(* C12 as stated: in that case the session is completed without alert and  *)
(* the run has exactly 3 entries with a frame number and one completion    *)
(* entry.                                                                  *)
C12_ThreeFrameEntries ==
    \A t \in Threads :
        Exhausted3(t) =>
            /\ session[sess[t]].status = COMPLETED
            /\ ~session[sess[t]].event_detected
            /\ Cardinality(FrameLogs(t)) = 3
            /\ Cardinality(Completions(t)) = 1

(* C12 amended: in that case the session is completed without alert and    *)
(* the run has exactly three entries for each of frames 1..3 (processing,  *)
(* analyzing, reply), one timeout entry with frame number 4 and one        *)
(* completion entry; any other entry with a frame number is a rate-limit   *)
(* entry or the entry of a wait that its frame overtook.                   *)
C12_ThreeEntriesPerFrame ==
    \A t \in Threads :
        Exhausted3(t) =>
            /\ session[sess[t]].status = COMPLETED
            /\ ~session[sess[t]].event_detected
            /\ \A n \in 1..3 :
                  /\ Cardinality(Entries(t, PROCESSING, n)) = 1
                  /\ Cardinality(Entries(t, ANALYZING, n)) = 1
                  /\ Cardinality(Entries(t, REPLY, n)) = 1
            /\ Cardinality(Entries(t, TIMED_OUT, 4)) = 1
            /\ Entries(t, PROCESSING, 4) = {}
            /\ \A i \in FrameLogs(t) :
                  /\ logs[i].frame_number \in 1..4
                  /\ logs[i].message.text \in
                        {PROCESSING, ANALYZING, REPLY, RATE_LIMIT, TIMED_OUT, ENDED}
                  /\ logs[i].message.text \in {PROCESSING, ANALYZING, REPLY, RATE_LIMIT} =>
                        logs[i].frame_number <= 3
            /\ Cardinality(Completions(t)) = 1

(* such a run has returned, with ten entries carrying a frame number *)
C12_Witness ==
    \E t \in Threads :
        /\ Exhausted3(t)
        /\ pc[t] = "returned"
        /\ Cardinality(FrameLogs(t)) = 10

RequestsBy(t) == SelectSeq(requests, LAMBDA r : r.by = t)
Processed(t) == {i \in LogsBy(t) : logs[i].message.text = PROCESSING}

(* C13: the requests of one run are for frames 1, 2, ..., m in this order: *)
(* a request is for the same frame as the one before it (which was         *)
(* throttled) or for the next frame (after an answer); every frame is      *)
(* taken up once, and frame n+1 only after the reply for frame n was       *)
(* logged and found negative.                                              *)
C13_FramesInOrder ==
    \A t \in Threads :
        LET R == RequestsBy(t) IN
        /\ R # <<>> => R[1].frame = 1
        /\ \A a \in 1..(Len(R) - 1) :
              \/ R[a + 1].frame = R[a].frame /\ R[a].outcome = "throttled"
              \/ R[a + 1].frame = R[a].frame + 1 /\ R[a].outcome = "ok"
        /\ \A i \in Processed(t) :
              LET n == logs[i].frame_number IN
              /\ n >= 1
              /\ \A j \in Processed(t) : i < j => n < logs[j].frame_number
              /\ n > 1 =>
                    /\ \E j \in Processed(t) : logs[j].frame_number = n - 1
                    /\ \E k \in Entries(t, REPLY, n - 1) : k < i /\ ~Positive(k)
        /\ \A a \in 1..Len(R) : Entries(t, PROCESSING, R[a].frame) # {}

(* a run has sent requests for frames 1, 2 and 3, one of them twice *)
C13_Witness ==
    \E t \in Threads :
        /\ Len(RequestsBy(t)) >= 4
        /\ RequestsBy(t)[Len(RequestsBy(t))].frame = 3

(* C15: when a loop's thread has ended, on whatever path, its session id   *)
(* is no longer registered: the registry holds exactly the live loop of a  *)
(* session, so start_if_needed for a finished session finds nothing active *)
(* and launches one fresh loop.                                            *)
C15_RemovedOnExit ==
    \A s \in Sessions :
        /\ \A t \in Threads : (sess[t] = s /\ pc[t] = "dead") => _threads[s] # t
        /\ _threads[s] # None => LoopsOf(s) = {_threads[s]}
        /\ _threads[s] = None => (LoopsOf(s) = {} /\ ~IsActive(s))

(* a loop that ended by an exception was removed and a fresh loop launched *)
C15_Witness ==
    \E s \in Sessions :
        /\ sess[1] = s
        /\ pc[1] = "dead"
        /\ exc[1] # ""
        /\ _threads[s] = 2
        /\ LoopsOf(s) = {2}

(* C17: once the wait for frame N was logged as timed out or as ended by   *)
(* the capture process, the loop sends no request for frame N or later,    *)
(* does not take up frame N, and ends completed without alert.             *)
C17_WaitEndIsTerminal ==
    \A t \in Threads : \A i \in WaitEnds(t) :
        LET N == logs[i].frame_number IN
        /\ \A k \in 1..Len(requests) : requests[k].by = t => requests[k].frame < N
        /\ Entries(t, PROCESSING, N) = {}
        /\ pc[t] \in {"recheck", "update_completed", "log_completed", "finally",
                       "wait_term", "log_stopped", "returned", "dead"}
        /\ (pc[t] \in {"log_completed", "finally", "wait_term", "log_stopped",
                        "returned", "dead"} /\ Newest(t)) =>
              /\ session[sess[t]].status = COMPLETED
              /\ ~session[sess[t]].event_detected

(* C18: a loop whose capture process could not be launched, or exited      *)
(* before frame 1 existed, ends in error; a loop whose capture process     *)
(* exited after a frame was processed ends completed.                      *)
C18_NoFrameIsFatal ==
    \A t \in Threads :
        (pc[t] \in {"returned", "dead"} /\ Newest(t)) =>
            /\ exc[t] = "ffmpeg launch failed" => session[sess[t]].status = ERROR
            /\ (Entries(t, ENDED, 1) # {} /\ written[t] = 0) =>
                  session[sess[t]].status = ERROR
            /\ (exc[t] = "" /\ \E n \in 2..frame_index[t] :
                                  Entries(t, ENDED, n) # {} /\ Entries(t, PROCESSING, n) = {}) =>
                  session[sess[t]].status = COMPLETED

Stops(t) == {i \in LogsBy(t) : logs[i].message.text = STOPPED}

(* C19: every loop run that has returned has appended "Monitoring          *)
(* stopped." exactly once, as its last entry, and its capture process was  *)
(* no longer alive when that entry was appended.                           *)
C19_StoppedIsLast ==
    \A t \in Threads :
        /\ pc[t] = "log_stopped" => proc[t] \notin {"running", "terminating"}
        /\ pc[t] \in {"returned", "dead"} =>
              /\ proc[t] \notin {"running", "terminating"}
              /\ LogsBy(t) # {}
              /\ Stops(t) = {Max(LogsBy(t))}

(* a loop that detected the event, with its capture process still running, *)
(* has returned                                                            *)
C19_Witness ==
    \E t \in Threads :
        /\ pc[t] = "returned"
        /\ proc[t] = "exited"
        /\ session[sess[t]].event_detected
        /\ \E i \in LogsBy(t) : logs[i].is_alert
        /\ logs[Len(logs)].message.text = STOPPED

SameLetter(a, b) ==
    \/ a = b
    \/ \E k \in 1..Len(UpperCase) : {a, b} = {UpperCase[k], LowerCase[k]}

(* phrase occurs in text at some position, letters compared without case *)
Occurs(phrase, text) ==
    \E i \in 0..(Len(text) - Len(phrase)) :
        \A j \in 1..Len(phrase) : SameLetter(text[i + j], phrase[j])

Classified(t) == pc[t] \in {"detected", "continue"}
Text_Yes == <<"Y","e","s",","," ","t","h","e"," ","e","v","e","n","t"," ","h","a","p","p","e","n","e","d">>
Text_No == <<"N","o"," ","c","h","a","n","g","e"," ","o","b","s","e","r","v","e","d">>
Text_Event == <<"E","V","E","N","T"," ","D","E","T","E","C","T","E","D"," ","a","t"," ","f","r","a","m","e"," ","1","2">>

(* C14: the decision is true exactly when "yes" or "event detected" occurs *)
(* somewhere in the reply text, letters compared without case; it is true  *)
(* for "Yes, the event happened" and "EVENT DETECTED at frame 12", false   *)
(* for "No change observed", and the same for the same text.               *)
C14_DecideRule ==
    \A t \in Threads :
        Classified(t) =>
            /\ pc[t] = "detected" <=>
                  \/ Occurs(<<"y","e","s">>, response[t])
                  \/ Occurs(<<"e","v","e","n","t"," ","d","e","t","e","c","t","e","d">>,
                            response[t])
            /\ response[t] \in {Text_Yes, Text_Event} => pc[t] = "detected"
            /\ response[t] = Text_No => pc[t] = "continue"

(* the upper-case example was classified as a detection *)
C14_Witness ==
    \E t \in Threads :
        /\ pc[t] = "detected"
        /\ response[t] = Text_Event

Running == {id \in DOMAIN STREAMS : STREAMS[id].running}

(* C20: at most one entry of STREAMS has running = true, and a             *)
(* start_stream request answered with 409 has registered no stream.        *)
C20_SingleActiveStream ==
    /\ Cardinality(Running) <= 1
    /\ \A r \in Handlers : req[r].status = 409 => req[r].stream_id = None

ProcessedFrames(s) ==
    {logs[i].frame_number : i \in {j \in 1..Len(logs) :
                                      /\ logs[j].session_id = s
                                      /\ logs[j].message.text = PROCESSING}}

(* C21: last_frame_number of a session is the largest frame index for      *)
(* which a loop of the session has started processing a frame file, 0 if   *)
(* there is none.                                                          *)
C21_LastFrameIsProcessed ==
    \A s \in Sessions :
        session[s].last_frame_number =
            IF ProcessedFrames(s) = {} THEN 0 ELSE Max(ProcessedFrames(s))

(* C22: the step that makes a session running sets the started timestamp   *)
(* and the output directory and clears error_message and event_detected;   *)
(* a running session has an empty error_message and no event_detected.     *)
C22_RunningIsClean ==
    [][\A s \in Sessions :
          /\ session'[s].status = RUNNING =>
                /\ session'[s].error_message = ""
                /\ ~session'[s].event_detected
          /\ (session[s].status # RUNNING /\ session'[s].status = RUNNING) =>
                /\ session'[s].started_at = clock'
                /\ session'[s].updated_at = clock'
                /\ session'[s].output_folder = "session_dir"
                /\ \E t \in Threads :
                       sess[t] = s /\ pc[t] = "start" /\ pc'[t] = "log_fetching"]_vars

(* a session that ended with a detection is running again, the flag gone *)
C22_Witness ==
    \E s \in Sessions :
        /\ session[s].status = RUNNING
        /\ ~session[s].event_detected
        /\ \E i \in 1..Len(logs) : logs[i].session_id = s /\ logs[i].is_alert

Fetchings(t) == {i \in LogsBy(t) : logs[i].message.text = "Fetching live stream URL"}
Failures(t) == {i \in LogsBy(t) : logs[i].message.text = FAILED}
PastStart == {"resolve", "log_fetched", "log_launching", "launch", "log_started", "wait",
              "poll", "log_ended", "log_timeout", "recheck", "log_processing",
              "append_turn", "log_analyzing", "infer", "log_ratelimit", "log_reply",
              "log_alert", "update_detected", "update_completed", "log_completed",
              "except", "log_failed", "finally", "wait_term", "log_stopped",
              "returned", "dead"}

(* C23: a run has one "Fetching live stream URL" entry for its start, and  *)
(* once it has returned exactly one entry for its end: the alert entry     *)
(* with completed and event_detected, the completed-without-detection      *)
(* entry with completed, or the "Monitoring failed" entry with error.      *)
C23_OneEntryPerTransition ==
    \A t \in Threads :
        /\ Cardinality(Fetchings(t)) = IF pc[t] \in PastStart THEN 1 ELSE 0
        /\ Cardinality(AlertsBy(t)) + Cardinality(Completions(t))
             + Cardinality(Failures(t)) <= 1
        /\ pc[t] \in {"finally", "wait_term", "log_stopped", "returned", "dead"} =>
              /\ Cardinality(AlertsBy(t)) + Cardinality(Completions(t))
                   + Cardinality(Failures(t)) = 1
              /\ Newest(t) =>
                    /\ AlertsBy(t) # {} <=>
                          (session[sess[t]].status = COMPLETED
                             /\ session[sess[t]].event_detected)
                    /\ Completions(t) # {} <=>
                          (session[sess[t]].status = COMPLETED
                             /\ ~session[sess[t]].event_detected)
                    /\ Failures(t) # {} <=> session[sess[t]].status = ERROR

(* two runs of a session have ended, one in error and one completed *)
C23_Witness ==
    /\ pc[1] = "dead"
    /\ pc[2] = "returned"
    /\ Failures(1) # {}
    /\ Completions(2) # {}

(* C24: a non-empty error_message implies status error, also after the     *)
(* session was started again.                                              *)
C24_ErrorMessageOnlyInError ==
    \A s \in Sessions :
        session[s].error_message # "" => session[s].status = ERROR

(* a session that ended in error is running again with the message cleared *)
C24_Witness ==
    \E s \in Sessions :
        /\ session[s].status = RUNNING
        /\ session[s].error_message = ""
        /\ \E i \in 1..Len(logs) :
               logs[i].session_id = s /\ logs[i].message.text = FAILED

PastLaunch == {"log_started", "wait", "poll", "log_ended", "log_timeout", "recheck",
               "log_processing", "append_turn", "log_analyzing", "infer",
               "log_ratelimit", "log_reply", "log_alert", "update_detected",
               "update_completed", "log_completed"}

(* C25: from the launch of its capture process on, every frame file in the *)
(* output directory of a loop was written by that capture process, so the  *)
(* frame the loop reads is never one left by an earlier run.               *)
C25_NoStaleFrames ==
    \A t \in Threads :
        (pc[t] \in PastLaunch /\ proc[t] # "none") =>
            \A n \in DOMAIN files[sess[t]] : files[sess[t]][n] = t

(* a second run has launched its capture process after the first run had   *)
(* left a frame file, and the directory is empty                           *)
C25_Witness ==
    /\ written[1] = 1
    /\ pc[2] \in PastLaunch
    /\ proc[2] = "running"
    /\ files[sess[2]] = <<>>

FrameEntries(t) ==
    SelectSeq(logs, LAMBDA e : e.by = t /\ e.frame_number # None)

IsWaitEnd(e) == e.message.text \in {TIMED_OUT, ENDED}
IsReply(e) == e.message.text = REPLY

(* the entries that may follow entry a directly among the frame entries of *)
(* one run                                                                 *)
MayFollow(a, b) ==
    IF b.frame_number = a.frame_number
    THEN \/ IsWaitEnd(a) /\ b.message.text = PROCESSING
         \/ a.message.text = PROCESSING /\ b.message.text = ANALYZING
         \/ a.message.text \in {ANALYZING, RATE_LIMIT}
               /\ b.message.text \in {RATE_LIMIT, REPLY}
         \/ IsReply(a) /\ a.message.arg \in PositiveReplies /\ b.is_alert
    ELSE /\ b.frame_number = a.frame_number + 1
         /\ IsReply(a)
         /\ a.message.arg \notin PositiveReplies
         /\ b.message.text = PROCESSING \/ IsWaitEnd(b)

(* C28: the entries of a run for a processed frame N come in the order     *)
(* "Processing frame N", "Analyzing frame N", any number of rate-limit     *)
(* entries, the reply, and after a positive reply only the alert; the      *)
(* entries of frame N + 1 begin after the reply of frame N.                *)
C28_EntriesInOrder ==
    \A t \in Threads :
        LET F == FrameEntries(t) IN
        /\ F # <<>> =>
              /\ F[1].frame_number = 1
              /\ F[1].message.text = PROCESSING \/ IsWaitEnd(F[1])
        /\ \A a \in 1..(Len(F) - 1) : MayFollow(F[a], F[a + 1])

(* a run has a throttled second frame answered positively: its entries end *)
(* with processing, analyzing, rate limit, reply, alert for frame 2        *)
C28_Witness ==
    \E t \in Threads :
        LET F == FrameEntries(t) IN
        /\ Len(F) >= 8
        /\ F[Len(F)].is_alert
        /\ F[Len(F)].frame_number = 2
        /\ F[Len(F) - 2].message.text = RATE_LIMIT
        /\ F[Len(F) - 4].message.text = PROCESSING

(* C29: the row of a session changes, and an entry is appended to its log, *)
(* only in a step of a loop of that session, also while the loop of        *)
(* another session is alive.                                               *)
C29_OwnSessionOnly ==
    [][/\ \A s \in Sessions :
             session'[s] # session[s] =>
                 \E t \in Threads : sess[t] = s /\ is_alive(t) /\ pc'[t] # pc[t]
       /\ logs' # logs =>
             /\ Len(logs') = Len(logs) + 1
             /\ \E t \in Threads :
                    /\ is_alive(t) /\ pc'[t] # pc[t]
                    /\ logs'[Len(logs')].by = t
                    /\ logs'[Len(logs')].session_id = sess[t]]_vars

(* the supervisor has started the loop of a second session while the loop  *)
(* of the first is past the launch of its capture process                  *)
C29_Witness ==
    \E t, u \in Threads :
        /\ sess[t] \in Sessions /\ sess[u] \in Sessions
        /\ sess[t] # sess[u]
        /\ _threads[sess[t]] = t
        /\ _threads[sess[u]] = u
        /\ pc[t] \in PastLaunch
        /\ pc[u] = "start"
        /\ session[sess[t]].status = RUNNING
        /\ session[sess[u]].status = PENDING

(* C27: a wait leaves for "Timed out" only when the capture process runs   *)
(* and more than FRAME_TIMEOUT_SECONDS have elapsed, for "ended" only when *)
(* the process has exited, and otherwise polls again; a wait that was      *)
(* abandoned appends one entry without alert naming that cause, and a      *)
(* frame has at most one such entry.                                       *)
C27_WaitEndsForCause ==
    [][\A t \in Threads :
          /\ (pc[t] = "poll" /\ pc'[t] = "log_timeout") =>
                proc[t] = "running" /\ elapsed[t] > FRAME_TIMEOUT_SECONDS
          /\ (pc[t] = "poll" /\ pc'[t] = "log_ended") => proc[t] # "running"
          /\ (pc[t] = "poll" /\ pc'[t] # "poll" /\ proc[t] = "running"
                /\ elapsed[t] <= FRAME_TIMEOUT_SECONDS) =>
                pc'[t] = "wait" /\ elapsed'[t] > elapsed[t]
          /\ (pc[t] = "wait" /\ pc'[t] # "wait") =>
                IF exists(sess[t], frame_index[t])
                THEN pc'[t] = "log_processing"
                ELSE pc'[t] = "poll"
          /\ (pc[t] # "recheck" /\ pc'[t] = "recheck") =>
                /\ pc[t] \in {"log_ended", "log_timeout"}
                /\ logs' = Append(logs, logs'[Len(logs')])
                /\ LET e == logs'[Len(logs')] IN
                      /\ e.by = t
                      /\ e.frame_number = frame_index[t]
                      /\ ~e.is_alert
                      /\ e.message.text =
                            IF pc[t] = "log_ended" THEN ENDED ELSE TIMED_OUT
                /\ Cardinality({i \in WaitEnds(t) :
                                   logs'[i].frame_number = frame_index[t]}) = 0]_vars

(* a wait for the second frame was abandoned after the deadline with the   *)
(* capture process still running                                           *)
C27_Witness ==
    \E t \in Threads :
        /\ pc[t] = "recheck"
        /\ frame_index[t] = 2
        /\ proc[t] = "running"
        /\ ~exists(sess[t], 2)
        /\ logs[Len(logs)].message.text = TIMED_OUT
        /\ logs[Len(logs)].by = t

(* C26: with finitely many frames and throttling signals, a loop that was  *)
(* started reaches the end of its thread with the session in a terminal    *)
(* status and the thread out of the registry.                              *)
C26_RunTerminates ==
    \A t \in Threads :
        (pc[t] = "start") ~>
            (/\ pc[t] = "dead"
             /\ session[sess[t]].status \in Terminal
             /\ _threads[sess[t]] # t)

(* a run that was throttled and then waited in vain for the next frame has *)
(* ended and left the registry                                             *)
C26_Witness ==
    \E t \in Threads :
        /\ pc[t] = "dead"
        /\ session[sess[t]].status \in Terminal
        /\ _threads[sess[t]] = None
        /\ \E i \in LogsBy(t) : logs[i].message.text = RATE_LIMIT
        /\ \E i \in LogsBy(t) : logs[i].message.text = TIMED_OUT

(* C30: a failed read of a live source is followed by a reopen attempt; a  *)
(* successful one sets fail_count to 0, a failed one adds 1, so fail_count *)
(* counts the failed attempts since the capture was last open; the stream  *)
(* is ended with "Live source stalled." at the fifth and not before.  A    *)
(* failed read of a webcam or file source ends the stream with no error.   *)
C30_ReopenOrStall ==
    [][\A id \in DOMAIN STREAMS :
          LET c == capture[id]
              d == capture'[id]
              live == STREAMS[id].source_type \in LiveSources
              failed == /\ c.pc = "read" /\ d.pc # "read"
                        /\ STREAMS'[id].frames_in = STREAMS[id].frames_in
          IN
          /\ d.fail_count \in 0..5
          /\ (d.pc \in {"loop", "read"} /\ d.fail_count > 0) => ~d.opened
          /\ STREAMS'[id].error = STALLED <=> d.fail_count = 5
          /\ (failed /\ live /\ d.opened) =>
                d.fail_count = 0 /\ d.pc = "loop" /\ STREAMS'[id] = STREAMS[id]
          /\ (failed /\ live /\ ~d.opened) =>
                /\ d.fail_count = c.fail_count + 1
                /\ IF d.fail_count = 5
                   THEN /\ d.pc = "exited"
                        /\ STREAMS'[id].ended /\ ~STREAMS'[id].running
                   ELSE d.pc = "loop" /\ STREAMS'[id] = STREAMS[id]
          /\ (failed /\ ~live) =>
                /\ d.pc = "exited"
                /\ STREAMS'[id].ended /\ ~STREAMS'[id].running
                /\ STREAMS'[id].error = NoError]_vars

(* a live stream that delivered a frame has stalled at the fifth failed    *)
(* reopen attempt                                                          *)
C30_Witness ==
    \E id \in DOMAIN STREAMS :
        /\ STREAMS[id].error = STALLED
        /\ STREAMS[id].ended
        /\ STREAMS[id].frames_in > 0
        /\ capture[id].fail_count = 5
        /\ capture[id].pc = "exited"

Sent(t) == {RequestsBy(t)[a].frame : a \in 1..Len(RequestsBy(t))}

(* the run of t has completed without detection *)
CompletedRun(t) == Completions(t) # {}

(* the last wait of t that was abandoned was left because the capture      *)
(* process had exited                                                      *)
LastWaitEnded(t) ==
    /\ WaitEnds(t) # {}
    /\ logs[Max(WaitEnds(t))].message.text = ENDED

(* C31 as stated: when a run completes without detection or failure, every *)
(* frame its capture process wrote has been sent for inference.            *)
C31_AllWrittenSent ==
    \A t \in Threads :
        CompletedRun(t) => \A n \in 1..written[t] : n \in Sent(t)

(* C31: a frame file that exists when the loop tests for it is processed,  *)
(* whether or not the capture process still runs; a run that completes     *)
(* after a wait ended by the exit of the capture process has sent every    *)
(* frame the process wrote.                                                *)
C31_ExistingFrameProcessed ==
    [][\A t \in Threads :
          /\ (pc[t] \in {"wait", "recheck"} /\ pc'[t] # pc[t]
                /\ exists(sess[t], frame_index[t])) => pc'[t] = "log_processing"
          /\ (CompletedRun(t) /\ LastWaitEnded(t))' =>
                (\A n \in 1..written[t] : n \in Sent(t))']_vars

(* the loop takes up frame 2, found at its first test, after the capture   *)
(* process has exited                                                      *)
C31_Witness ==
    \E t \in Threads :
        /\ pc[t] = "log_processing"
        /\ frame_index[t] = 2
        /\ proc[t] = "exited"
        /\ WaitEnds(t) = {}

(* C32: while a run of a session is alive, event_detected of the session   *)
(* is true if and only if that run has appended an alert entry.            *)
C32_AlertIffDetected ==
    \A t \in Threads :
        (is_alive(t) /\ sess[t] \in Sessions /\ Newest(t)) =>
            (session[sess[t]].event_detected <=> AlertsBy(t) # {})

(* ------------------- src/live.py: the standalone script ------------------ *)
(* main() is run on what the loop of thread Ref met: the script is started *)
(* when that run is over and reads, from the log and the calls of the run, *)
(* whether the stream and the capture process could be started, whether    *)
(* frame n was there at the end of its wait, whether it could be read, and *)
(* how the service answered the k-th call.  What it sends is its own.      *)
Ref == 1
Observed == pc[Ref] = "dead"
ObsStarted == \E i \in LogsBy(Ref) : logs[i].message.text = "Monitoring started."
ObsFrame(n) == Entries(Ref, PROCESSING, n) # {}
ObsRead(n) == Entries(Ref, ANALYZING, n) # {}
ObsCall(k) == RequestsBy(Ref)[k].outcome
ObsReply(n) == logs[CHOOSE i \in Entries(Ref, REPLY, n) : TRUE].message.arg

MainRequest(outcome) ==
    [frame |-> main.frame_index, input |-> main.conversation, outcome |-> outcome]

(* lines 57-80: get_live_stream_url and start_ffmpeg_frame_dump outside    *)
(* the try, then the system message                                        *)
MainStart ==
    /\ main.pc = "idle"
    /\ Observed
    /\ IF ObsStarted
       THEN main' = [main EXCEPT !.pc = "wait",
                                 !.conversation = <<SystemTurn(sess[Ref])>>,
                                 !.frame_index = 1,
                                 !.first_frame_sent = FALSE]
       ELSE main' = [main EXCEPT !.pc = "crashed"]
    /\ UNCHANGED <<loopvars, webvars>>

(* lines 84-101: the wait and `if not os.path.exists(frame_path): break` *)
MainWait ==
    /\ main.pc = "wait"
    /\ Observed
    /\ main' = [main EXCEPT !.pc = IF ObsFrame(main.frame_index)
                                   THEN "read" ELSE "finally"]
    /\ UNCHANGED <<loopvars, webvars>>

MainAppendTurnLast3 ==
    /\ main.pc = "read"
    /\ Observed
    /\ IF ObsRead(main.frame_index)
       THEN main' = [main EXCEPT
                        !.conversation =
                            AppendFrameLast3(@, UserTurn(~main.first_frame_sent, main.frame_index)),
                        !.first_frame_sent = TRUE,
                        !.pc = "infer"]
       ELSE main' = [main EXCEPT !.pc = "crashed"]
    /\ UNCHANGED <<loopvars, webvars>>

(* lines 103-133: encode_image_file_to_base64, the user message, append    *)
(* and prune                                                               *)
MainAppendTurn ==
    /\ main.pc = "read"
    /\ Observed
    /\ IF ObsRead(main.frame_index)
       THEN main' = [main EXCEPT
                        !.conversation =
                            AppendFrame(@, UserTurn(~main.first_frame_sent, main.frame_index)),
                        !.first_frame_sent = TRUE,
                        !.pc = "infer"]
       ELSE main' = [main EXCEPT !.pc = "crashed"]
    /\ UNCHANGED <<loopvars, webvars>>

(* lines 136-149: one pass of the retry loop *)
MainInfer ==
    /\ main.pc = "infer"
    /\ Observed
    /\ Len(main.requests) < Len(RequestsBy(Ref))
    /\ LET outcome == ObsCall(Len(main.requests) + 1) IN
       main' = [main EXCEPT
                   !.requests = Append(@, MainRequest(outcome)),
                   !.response = IF outcome = "ok"
                                THEN ObsReply(main.frame_index) ELSE @,
                   !.pc = CASE outcome = "ok" -> "decide"
                            [] outcome = "throttled" -> "infer"
                            [] OTHER -> "crashed"]
    /\ UNCHANGED <<loopvars, webvars>>

(* lines 151-158: reply_text, the test of line 154, frame_index += 1 *)
MainDecide ==
    /\ main.pc = "decide"
    /\ IF decide(strip(ReplyText[main.response]))
       THEN main' = [main EXCEPT !.pc = "finally"]
       ELSE main' = [main EXCEPT !.frame_index = @ + 1, !.pc = "wait"]
    /\ UNCHANGED <<loopvars, webvars>>

(* lines 160-169 *)
MainFinally ==
    /\ main.pc = "finally"
    /\ main' = [main EXCEPT !.pc = "done"]
    /\ UNCHANGED <<loopvars, webvars>>

(* one run of _monitoring_loop, then main() on the same inputs *)
InitEquiv ==
    InitWith({1}, [threads |-> 1, resolves |-> 1, frames |-> 3, throttles |-> 1,
                   until |-> None])

NextEquiv ==
    \/ Next
    \/ MainStart
    \/ MainWait
    \/ MainAppendTurn
    \/ MainInfer
    \/ MainDecide
    \/ MainFinally

SpecEquiv == InitEquiv /\ [][NextEquiv]_vars

(* the calls of the loop with what the script records of a call *)
RefRequests ==
    [k \in 1..Len(RequestsBy(Ref)) |->
        [frame |-> RequestsBy(Ref)[k].frame, input |-> RequestsBy(Ref)[k].input,
         outcome |-> RequestsBy(Ref)[k].outcome]]

C34_EndedNotRunning ==
    [][\A id \in DOMAIN STREAMS :
          /\ STREAMS'[id].ended => ~STREAMS'[id].running
          /\ ~STREAMS[id].running => ~STREAMS'[id].running
          /\ STREAMS[id].ended => STREAMS'[id].ended]_vars

(* a stream was ended by its capture loop as stalled and by stop_stream *)
C34_Witness ==
    \E id \in DOMAIN STREAMS :
        /\ STREAMS[id].ended /\ ~STREAMS[id].running
        /\ STREAMS[id].error = STALLED
        /\ \E r \in Handlers :
               /\ req[r].op = "stop_stream" /\ req[r].stream_id = id
               /\ req[r].pc = "done" /\ req[r].status = 200

StoppedOk(id) ==
    \E r \in Handlers :
        /\ req[r].op = "stop_stream"
        /\ req[r].pc = "done"
        /\ req[r].status = 200
        /\ req[r].stream_id = id

(* C35: once stop_stream has answered ok for a stream, the capture thread  *)
(* of the stream has exited.                                               *)
C35_StoppedThreadExited ==
    \A id \in DOMAIN STREAMS : StoppedOk(id) => capture[id].pc = "exited"

(* C36: the capture loop of a live stream that is neither stopped nor      *)
(* served with frames for ever ends the stream.                            *)
C36_LiveStreamEnds ==
    \A id \in StreamIds :
        (/\ id \in DOMAIN STREAMS
         /\ STREAMS[id].source_type \in LiveSources
         /\ capture[id].pc = "loop")
            ~> (/\ id \in DOMAIN STREAMS
                /\ STREAMS[id].ended \/ ~STREAMS[id].running)

====
